---- MODULE Spec2Model ----
(***************************************************************************)
(* Digital asset registry (src/src/index.ts): the asset store, the creator *)
(* index, the rate limiter and the request handlers that mutate them.      *)
(* Handlers are synchronous express callbacks, so each one is one atomic   *)
(* step.  Time (ic.time / Date.now) is a clock counted in minutes.         *)
(***************************************************************************)
EXTENDS Integers, Sequences, FiniteSets, TLC

\* ---------------------------------------------------------------- bounds
MaxUuid   == 3      \* uuidv4() draws (asset ids and transfer ids together)
MaxAssets == 2      \* stored assets
MaxTime   == 1      \* the clock stops advancing here
MaxTimers == 1      \* pending setTimeout callbacks
MaxPage   == 2      \* largest page and limit a listing asks for
BurstMaxTimers == 11  \* pending setTimeout callbacks during a burst

\* ------------------------------------------------------ program constants
RateLimit  == 10    \* rateLimit(req.body.creatorId, 10)
ResetDelay == 1     \* setTimeout(..., 60000): one minute

AssetType   == {"IMAGE", "AUDIO", "VIDEO", "DOCUMENT", "CODE"}
AssetStatus == {"ACTIVE", "TRANSFERRED", "REVOKED", "DELETED"}
TransferType == {"FULL", "LICENSE"}

\* ------------------------------------------------------------ input sets
Creators == {"U1", "U2"}                 \* creator ids that match the UUID pattern
ContentHashes == {"h0"}                  \* strings of 64 hex digits
AssetIds == 1..MaxUuid                   \* ids a request may name
BaseMetadata == [fileFormat |-> "png", fileSize |-> 1]
\* a request field that is missing
Undefined == [undefined |-> TRUE]
\* request bodies of POST /assets: well-formed ones and ones without a title
Bodies ==
  [title : {"Mona", ""}, description : {"d"}, assetType : {"IMAGE"},
   creatorId : Creators, contentHash : ContentHashes, metadata : {BaseMetadata}]
\* metadata patches of PUT /assets/:id/metadata
Patches == {[fileSize |-> 2, dimensions |-> "1x1"]}
\* req.query.page and req.query.limit of GET /creators/:creatorId/assets;
\* 0 stands for "0" and for a parameter that is absent or not a number
QueryNumbers == 0..MaxPage
\* the bodies of a burst of POST /assets requests by one creator
BurstBodies == {body \in Bodies : body.creatorId = "U1"}

VARIABLES
  assetStorage,   \* asset id -> DigitalAsset (keys present in the map)
  creatorAssets,  \* creator id -> sequence of asset ids (keys present)
  rateLimiter,    \* user id -> request count (a missing key reads as 0)
  timers,         \* pending setTimeout callbacks, in scheduling order
  uuidCount,      \* number of uuidv4() values drawn so far
  now,            \* the clock
  res             \* the last response

vars == <<assetStorage, creatorAssets, rateLimiter, timers, uuidCount, now, res>>

\* ---------------------------------------------------------------- helpers
uuidv4 == uuidCount + 1

getCurrentDate == now

\* a response: the route that answered and the asset id it was asked about
\* (for POST /assets the id of the asset made, 0 when none was), the status
\* code and the error message ("" for res.json without an error)
Ok(route, id) == [route |-> route, id |-> id, statusCode |-> 200, error |-> ""]
AppError(route, id, message, statusCode) ==
  [route |-> route, id |-> id, statusCode |-> statusCode, error |-> message]
\* res.json(body) of the two GET routes, whose body the caller reads
Json(route, id, body) ==
  [route |-> route, id |-> id, statusCode |-> 200, error |-> "", body |-> body]

\* s.filter(id => id !== x)
RECURSIVE Filter(_, _)
Filter(s, x) ==
  IF s = <<>> THEN <<>>
  ELSE IF Head(s) = x THEN Filter(Tail(s), x)
       ELSE <<Head(s)>> \o Filter(Tail(s), x)

InsertAlone(map, k, v) == [x \in {k} |-> v]

\* map.insert(k, v)
Insert(map, k, v) == [x \in DOMAIN map \cup {k} |-> IF x = k THEN v ELSE map[x]]

SpreadSecondOnly(a, b) == b

\* { ...a, ...b }
Spread(a, b) == [k \in DOMAIN a \cup DOMAIN b |-> IF k \in DOMAIN b THEN b[k] ELSE a[k]]

\* the message of the error validateAssetRegistration throws, "" when it
\* returns; the titles of Bodies are at most 100 characters long
validateAssetRegistration(data) ==
  IF data.title = "" THEN "Invalid title"
  ELSE IF data.creatorId \notin Creators THEN "Invalid creator ID"
  ELSE IF data.contentHash \notin ContentHashes THEN "Invalid content hash"
  ELSE IF data.assetType \notin AssetType THEN "Invalid asset type"
  ELSE IF data.metadata = Undefined THEN "Invalid metadata"
  ELSE ""

isAuthorizedAnyUser(assetId, userId) == assetId \in DOMAIN assetStorage

isAuthorized(assetId, userId) ==
  IF assetId \notin DOMAIN assetStorage THEN FALSE
  ELSE assetStorage[assetId].creatorId = userId

\* rateLimit(userId, limit): TRUE when the request passes; RateLimitEffect
\* is what it does to the counter and the timers in that case
rateLimit(userId, limit) == ~(rateLimiter[userId] >= limit)

RateLimitEffect(userId, limit) ==
  IF rateLimit(userId, limit)
  THEN /\ rateLimiter' = [rateLimiter EXCEPT ![userId] = rateLimiter[userId] + 1]
       /\ timers' = Append(timers, [userId |-> userId,
                                    userRequests |-> rateLimiter[userId],
                                    due |-> now + ResetDelay])
  ELSE UNCHANGED <<rateLimiter, timers>>

\* a StableBTreeMap with no keys
EmptyMap == [x \in {} |-> x]

Init ==
  /\ assetStorage = EmptyMap
  /\ creatorAssets = EmptyMap
  /\ rateLimiter = [u \in Creators |-> 0]
  /\ timers = <<>>
  /\ uuidCount = 0
  /\ now = 0
  /\ res = [route |-> "", id |-> 0, statusCode |-> 0, error |-> ""]

\* ---------------------------------------------------------------- actions
\* the bounds: a request that would store an asset, draw a uuid or schedule a
\* timer beyond the bound is not issued
CreateInBounds(body) ==
  rateLimit(body.creatorId, RateLimit) =>
    /\ Len(timers) < MaxTimers
    /\ validateAssetRegistration(body) = "" =>
         /\ uuidCount < MaxUuid
         /\ Cardinality(DOMAIN assetStorage) < MaxAssets

\* the same for a burst, which may leave many timers pending
BurstInBounds(body) ==
  rateLimit(body.creatorId, RateLimit) =>
    /\ Len(timers) < BurstMaxTimers
    /\ validateAssetRegistration(body) = "" =>
         /\ uuidCount < MaxUuid
         /\ Cardinality(DOMAIN assetStorage) < MaxAssets

\* POST /assets
CreateAssetHandler(body) ==
  /\ RateLimitEffect(body.creatorId, RateLimit)
  /\ UNCHANGED now
  /\ IF ~rateLimit(body.creatorId, RateLimit)
     THEN /\ res' = AppError("create", 0, "Too many requests", 429)
          /\ UNCHANGED <<assetStorage, creatorAssets, uuidCount>>
     ELSE IF validateAssetRegistration(body) # ""
     THEN /\ res' = AppError("create", 0, validateAssetRegistration(body), 400)
          /\ UNCHANGED <<assetStorage, creatorAssets, uuidCount>>
     ELSE LET assetId == uuidv4
              asset == [id |-> assetId,
                        title |-> body.title,
                        description |-> body.description,
                        assetType |-> body.assetType,
                        creatorId |-> body.creatorId,
                        contentHash |-> body.contentHash,
                        registrationDate |-> getCurrentDate,
                        lastModified |-> getCurrentDate,
                        transferHistory |-> <<>>,
                        status |-> "ACTIVE",
                        metadata |-> body.metadata]
          IN /\ uuidCount' = uuidCount + 1
             /\ assetStorage' = Insert(assetStorage, assetId, asset)
             /\ creatorAssets' =
                  IF body.creatorId \notin DOMAIN creatorAssets
                  THEN Insert(creatorAssets, body.creatorId, <<assetId>>)
                  ELSE Insert(creatorAssets, body.creatorId,
                              Append(creatorAssets[body.creatorId], assetId))
             /\ res' = Ok("create", assetId)

CreateAsset(body) == CreateInBounds(body) /\ CreateAssetHandler(body)

CreateAssetBurst(body) == BurstInBounds(body) /\ CreateAssetHandler(body)

\* GET /assets/:id ----------------------------------------------------------
GetAsset(id) ==
  /\ UNCHANGED <<assetStorage, creatorAssets, rateLimiter, timers, uuidCount, now>>
  /\ IF id \notin DOMAIN assetStorage
     THEN res' = AppError("get", id, "Asset not found", 404)
     ELSE res' = Json("get", id, assetStorage[id])

\* GET /creators/:creatorId/assets ------------------------------------------
\* parseInt(q) || orElse
ParseIntOr(q, orElse) == IF q = 0 THEN orElse ELSE q

SliceToEnd(s, startIndex, endIndex) ==
  IF startIndex >= Len(s) THEN <<>> ELSE SubSeq(s, startIndex + 1, Len(s))

\* s.slice(startIndex, endIndex), both indices at least 0
Slice(s, startIndex, endIndex) ==
  IF startIndex >= Len(s) \/ startIndex >= endIndex THEN <<>>
  ELSE SubSeq(s, startIndex + 1, IF endIndex < Len(s) THEN endIndex ELSE Len(s))

\* ids.map(assetId => asset or null).filter(asset => asset !== null)
RECURSIVE ResolveAssets(_)
ResolveAssets(ids) ==
  IF ids = <<>> THEN <<>>
  ELSE IF Head(ids) \notin DOMAIN assetStorage THEN ResolveAssets(Tail(ids))
       ELSE <<assetStorage[Head(ids)]>> \o ResolveAssets(Tail(ids))

\* the body of the response
AssetsByCreator(creatorId, queryPage, queryLimit) ==
  LET page == ParseIntOr(queryPage, 1)
      limit == ParseIntOr(queryLimit, 10)
  IN IF creatorId \notin DOMAIN creatorAssets
     THEN [assets |-> <<>>, total |-> 0, page |-> page, limit |-> limit]
     ELSE LET allAssets == creatorAssets[creatorId]
              startIndex == (page - 1) * limit
              endIndex == page * limit
              paginatedAssets == ResolveAssets(Slice(allAssets, startIndex, endIndex))
          IN [assets |-> paginatedAssets, total |-> Len(allAssets),
              page |-> page, limit |-> limit]

GetAssetsByCreator(creatorId, queryPage, queryLimit) ==
  /\ UNCHANGED <<assetStorage, creatorAssets, rateLimiter, timers, uuidCount, now>>
  /\ res' = Json("list", 0, [creatorId |-> creatorId] @@
                             AssetsByCreator(creatorId, queryPage, queryLimit))

\* POST /assets/:id/transfer ------------------------------------------------
TransferRecord(asset, toId, transferType) ==
  [id |-> uuidv4,
   fromId |-> asset.creatorId,
   toId |-> toId,
   transferDate |-> getCurrentDate,
   transferType |-> transferType]

TransferStatusAlwaysTransferred(transferType) == "TRANSFERRED"

TransferStatusAlwaysActive(transferType) == "ACTIVE"

TransferStatus(transferType) ==
  IF transferType = "FULL" THEN "TRANSFERRED" ELSE "ACTIVE"

TransferredAssetLastOnly(asset, transfer, transferType) ==
  [asset EXCEPT !.transferHistory = <<transfer>>,
                !.status = TransferStatus(transferType),
                !.lastModified = getCurrentDate]

TransferredAsset(asset, transfer, transferType) ==
  [asset EXCEPT !.transferHistory = Append(asset.transferHistory, transfer),
                !.status = TransferStatus(transferType),
                !.lastModified = getCurrentDate]

FullTransferIndexStale(asset, toId) ==
  LET oldCreatorAssets == creatorAssets[asset.creatorId]
      removed == Insert(creatorAssets, asset.creatorId,
                        Filter(oldCreatorAssets, asset.id))
  IN IF toId \notin DOMAIN creatorAssets
     THEN Insert(removed, toId, <<asset.id>>)
     ELSE Insert(removed, toId, Append(creatorAssets[toId], asset.id))

\* the creator index after the two inserts of a FULL transfer
FullTransferIndex(asset, toId) ==
  LET oldCreatorAssets == creatorAssets[asset.creatorId]
      removed == Insert(creatorAssets, asset.creatorId,
                        Filter(oldCreatorAssets, asset.id))
  IN IF toId \notin DOMAIN removed
     THEN Insert(removed, toId, <<asset.id>>)
     ELSE Insert(removed, toId, Append(removed[toId], asset.id))

TransferIndex(asset, toId, transferType) ==
  IF transferType = "FULL" THEN FullTransferIndex(asset, toId) ELSE creatorAssets

TransferGuardRevokedOnly(asset) == asset.status = "REVOKED"

\* if (asset.status !== AssetStatus.ACTIVE) throw
TransferGuard(asset) == asset.status # "ACTIVE"

\* the bound: a transfer that would draw a uuid beyond the bound is not issued
TransferInBounds(id, fromId) ==
  (isAuthorized(id, fromId) /\ ~TransferGuard(assetStorage[id])) => uuidCount < MaxUuid

TransferAsset(id, fromId, toId, transferType) ==
  /\ TransferInBounds(id, fromId)
  /\ UNCHANGED <<rateLimiter, timers, now>>
  /\ IF ~isAuthorized(id, fromId)
     THEN /\ res' = AppError("transfer", id, "Unauthorized", 403)
          /\ UNCHANGED <<assetStorage, creatorAssets, uuidCount>>
     ELSE IF id \notin DOMAIN assetStorage
     THEN /\ res' = AppError("transfer", id, "Asset not found", 404)
          /\ UNCHANGED <<assetStorage, creatorAssets, uuidCount>>
     ELSE LET asset == assetStorage[id] IN
       IF TransferGuard(asset)
       THEN /\ res' = AppError("transfer", id, "Asset is not available for transfer", 400)
            /\ UNCHANGED <<assetStorage, creatorAssets, uuidCount>>
       ELSE IF transferType = "FULL" /\ asset.creatorId \notin DOMAIN creatorAssets
       THEN \* creatorAssets.get(...).Some is undefined: TypeError, caught
            /\ res' = AppError("transfer", id, "TypeError", 500)
            /\ uuidCount' = uuidCount + 1
            /\ UNCHANGED <<assetStorage, creatorAssets>>
       ELSE LET transfer == TransferRecord(asset, toId, transferType)
                updatedAsset == TransferredAsset(asset, transfer, transferType)
            IN /\ uuidCount' = uuidCount + 1
               /\ creatorAssets' = TransferIndex(asset, toId, transferType)
               /\ assetStorage' = Insert(assetStorage, asset.id, updatedAsset)
               /\ res' = Ok("transfer", id)

\* PUT /assets/:id/metadata -------------------------------------------------
MetadataUpdatedAssetRestamped(asset, metadata) ==
  [asset EXCEPT !.metadata = Spread(asset.metadata, metadata),
                !.registrationDate = getCurrentDate,
                !.lastModified = getCurrentDate]

MetadataUpdatedAsset(asset, metadata) ==
  [asset EXCEPT !.metadata = Spread(asset.metadata, metadata),
                !.lastModified = getCurrentDate]

UpdateAssetMetadata(id, creatorId, metadata) ==
  /\ UNCHANGED <<creatorAssets, rateLimiter, timers, uuidCount, now>>
  /\ IF ~isAuthorized(id, creatorId)
     THEN /\ res' = AppError("metadata", id, "Unauthorized", 403)
          /\ UNCHANGED assetStorage
     ELSE IF id \notin DOMAIN assetStorage
     THEN /\ res' = AppError("metadata", id, "Asset not found", 404)
          /\ UNCHANGED assetStorage
     ELSE LET asset == assetStorage[id]
              updatedAsset == MetadataUpdatedAsset(asset, metadata)
          IN /\ assetStorage' = Insert(assetStorage, asset.id, updatedAsset)
             /\ res' = Ok("metadata", id)

\* POST /assets/:id/revoke --------------------------------------------------
RevokeGuardNever(asset) == FALSE

\* if (asset.status === AssetStatus.REVOKED) throw
RevokeGuard(asset) == asset.status = "REVOKED"

RevokedAssetReactivating(asset) ==
  [asset EXCEPT !.status = IF asset.status = "DELETED" THEN "ACTIVE" ELSE "REVOKED",
                !.lastModified = getCurrentDate]

RevokedAsset(asset) ==
  [asset EXCEPT !.status = "REVOKED", !.lastModified = getCurrentDate]

RevokeAsset(id, creatorId) ==
  /\ UNCHANGED <<creatorAssets, rateLimiter, timers, uuidCount, now>>
  /\ IF ~isAuthorized(id, creatorId)
     THEN /\ res' = AppError("revoke", id, "Unauthorized", 403)
          /\ UNCHANGED assetStorage
     ELSE IF id \notin DOMAIN assetStorage
     THEN /\ res' = AppError("revoke", id, "Asset not found", 404)
          /\ UNCHANGED assetStorage
     ELSE LET asset == assetStorage[id] IN
       IF RevokeGuard(asset)
       THEN /\ res' = AppError("revoke", id, "Asset is already revoked", 400)
            /\ UNCHANGED assetStorage
       ELSE /\ assetStorage' = Insert(assetStorage, asset.id, RevokedAsset(asset))
            /\ res' = Ok("revoke", id)

\* DELETE /assets/:id -------------------------------------------------------
DeletedAssetUnlessRevoked(asset) ==
  [asset EXCEPT !.status = IF asset.status = "REVOKED" THEN "REVOKED" ELSE "DELETED",
                !.lastModified = getCurrentDate]

DeletedAsset(asset) ==
  [asset EXCEPT !.status = "DELETED", !.lastModified = getCurrentDate]

DeleteAsset(id, creatorId) ==
  /\ UNCHANGED <<creatorAssets, rateLimiter, timers, uuidCount, now>>
  /\ IF ~isAuthorized(id, creatorId)
     THEN /\ res' = AppError("delete", id, "Unauthorized", 403)
          /\ UNCHANGED assetStorage
     ELSE IF id \notin DOMAIN assetStorage
     THEN /\ res' = AppError("delete", id, "Asset not found", 404)
          /\ UNCHANGED assetStorage
     ELSE LET asset == assetStorage[id]
          IN /\ assetStorage' = Insert(assetStorage, asset.id, DeletedAsset(asset))
             /\ res' = Ok("delete", id)

\* the callback of setTimeout in rateLimit ----------------------------------
TimerFire ==
  /\ timers # <<>>
  /\ Head(timers).due <= now
  /\ rateLimiter' = [rateLimiter EXCEPT ![Head(timers).userId] = Head(timers).userRequests]
  /\ timers' = Tail(timers)
  /\ UNCHANGED <<assetStorage, creatorAssets, uuidCount, now, res>>

\* time passes (ic.time() and Date.now() advance between messages)
Tick ==
  /\ now < MaxTime
  /\ now' = now + 1
  /\ UNCHANGED <<assetStorage, creatorAssets, rateLimiter, timers, uuidCount, res>>

\* ------------------------------------------------------------- the system
Next ==
  \/ \E body \in Bodies : CreateAsset(body)
  \/ \E id \in AssetIds, fromId \in Creators, toId \in Creators, transferType \in TransferType :
        TransferAsset(id, fromId, toId, transferType)
  \/ \E id \in AssetIds, creatorId \in Creators, metadata \in Patches :
        UpdateAssetMetadata(id, creatorId, metadata)
  \/ \E id \in AssetIds, creatorId \in Creators : RevokeAsset(id, creatorId)
  \/ \E id \in AssetIds, creatorId \in Creators : DeleteAsset(id, creatorId)
  \/ \E id \in AssetIds : GetAsset(id)
  \/ \E creatorId \in Creators, queryPage \in QueryNumbers, queryLimit \in QueryNumbers :
        GetAssetsByCreator(creatorId, queryPage, queryLimit)
  \/ TimerFire
  \/ Tick

Spec == Init /\ [][Next]_vars

\* a burst of POST /assets requests by one creator, the timers it leaves
\* pending and the clock
BurstNext ==
  \/ \E body \in BurstBodies : CreateAssetBurst(body)
  \/ TimerFire
  \/ Tick

BurstSpec == Init /\ [][BurstNext]_vars

\* ------------------------------------------------------------------ claims
Contains(s, x) == \E i \in 1..Len(s) : s[i] = x

IsPrefix(s, t) == Len(s) <= Len(t) /\ SubSeq(t, 1, Len(s)) = s

InIndex(c, id) == c \in DOMAIN creatorAssets /\ Contains(creatorAssets[c], id)

InIndexAfter(c, id) == c \in DOMAIN creatorAssets' /\ Contains(creatorAssets'[c], id)

Unauthorized(route, id) == AppError(route, id, "Unauthorized", 403)

NotFound(route, id) == AppError(route, id, "Asset not found", 404)

NotAvailable(id) == AppError("transfer", id, "Asset is not available for transfer", 400)

AlreadyRevoked(id) == AppError("revoke", id, "Asset is already revoked", 400)

\* the asset store and the creator index are left as they were
StoreUnchanged == UNCHANGED <<assetStorage, creatorAssets>>

\* the step is a request on one of the four mutating routes; every branch of
\* their handlers answers with the route and the id of the request
Mutating == res'.route \in {"transfer", "metadata", "revoke", "delete"}

\* C1 (P1): for every stored asset A, A.id is in the creator-index entry of
\* A.creatorId and in no other creator's entry.
C1_IndexConsistency ==
  \A id \in DOMAIN assetStorage : \A c \in Creators :
    InIndex(c, id) <=> c = assetStorage[id].creatorId

\* C2: a successful FULL transfer of an ACTIVE asset by its owner sets status
\* TRANSFERRED and creatorId to toId, appends exactly one Transfer record,
\* removes the id from fromId's index entry and adds it to toId's.
C2_FullTransfer ==
  [][(res'.route = "transfer" /\ res'.statusCode = 200) =>
      \A id \in DOMAIN assetStorage, toId \in Creators :
        LET asset == assetStorage[id] IN
        (asset.status = "ACTIVE" /\ TransferAsset(id, asset.creatorId, toId, "FULL")) =>
          /\ assetStorage'[id].status = "TRANSFERRED"
          /\ assetStorage'[id].creatorId = toId
          /\ Len(assetStorage'[id].transferHistory) = Len(asset.transferHistory) + 1
          /\ (toId # asset.creatorId => ~InIndexAfter(asset.creatorId, id))
          /\ InIndexAfter(toId, id)]_vars

\* the asset was handed over from u1 to u2 by a FULL transfer
HandedOver(id, u1, u2) ==
  \E i \in 1..Len(assetStorage[id].transferHistory) :
    LET t == assetStorage[id].transferHistory[i] IN
    t.transferType = "FULL" /\ t.fromId = u1 /\ t.toId = u2

\* C3: after a successful FULL transfer from U1 to U2 (U1 # U2), every later
\* UpdateAssetMetadata, RevokeAsset or DeleteAsset with actor U1 fails with
\* Unauthorized, and with actor U2 passes the authorization check.
C3_HandOver ==
  [][res'.route \in {"metadata", "revoke", "delete"} =>
      \A id \in DOMAIN assetStorage, u1 \in Creators, u2 \in Creators :
        (u1 # u2 /\ HandedOver(id, u1, u2)) =>
          /\ (\E metadata \in Patches : UpdateAssetMetadata(id, u1, metadata))
               => res' = Unauthorized("metadata", id)
          /\ RevokeAsset(id, u1) => res' = Unauthorized("revoke", id)
          /\ DeleteAsset(id, u1) => res' = Unauthorized("delete", id)
          /\ (\E metadata \in Patches : UpdateAssetMetadata(id, u2, metadata))
               => res' # Unauthorized("metadata", id)
          /\ RevokeAsset(id, u2) => res' # Unauthorized("revoke", id)
          /\ DeleteAsset(id, u2) => res' # Unauthorized("delete", id)]_vars

\* C4 (P3): TransferAsset, UpdateAssetMetadata, RevokeAsset or DeleteAsset on
\* an existing asset with an actor different from the stored creatorId fails
\* with Unauthorized and leaves the asset store and the creator index
\* unchanged, whatever the asset's status.
C4_UnauthorizedNoChange ==
  [][Mutating =>
      \A id \in DOMAIN assetStorage \cap {res'.id}, actor \in Creators :
        actor # assetStorage[id].creatorId =>
          /\ (\E toId \in Creators, transferType \in TransferType :
                TransferAsset(id, actor, toId, transferType))
               => (res' = Unauthorized("transfer", id) /\ StoreUnchanged)
          /\ (\E metadata \in Patches : UpdateAssetMetadata(id, actor, metadata))
               => (res' = Unauthorized("metadata", id) /\ StoreUnchanged)
          /\ RevokeAsset(id, actor)
               => (res' = Unauthorized("revoke", id) /\ StoreUnchanged)
          /\ DeleteAsset(id, actor)
               => (res' = Unauthorized("delete", id) /\ StoreUnchanged)]_vars

\* a DELETE of a stored DELETED asset was refused as Unauthorized
C4_Witness ==
  /\ res.route = "delete"
  /\ res.id \in DOMAIN assetStorage
  /\ res = Unauthorized("delete", res.id)
  /\ assetStorage[res.id].status = "DELETED"

\* C5: TransferAsset, UpdateAssetMetadata, RevokeAsset and DeleteAsset on an
\* asset id that is not in the asset store fail with NotFound, whatever the
\* actor, and change no state.
C5_MissingAssetNotFound ==
  [][Mutating =>
      \A id \in {res'.id} \ DOMAIN assetStorage, actor \in Creators :
        /\ (\E toId \in Creators, transferType \in TransferType :
              TransferAsset(id, actor, toId, transferType))
             => (res' = NotFound("transfer", id) /\ StoreUnchanged)
        /\ (\E metadata \in Patches : UpdateAssetMetadata(id, actor, metadata))
             => (res' = NotFound("metadata", id) /\ StoreUnchanged)
        /\ RevokeAsset(id, actor) => (res' = NotFound("revoke", id) /\ StoreUnchanged)
        /\ DeleteAsset(id, actor) => (res' = NotFound("delete", id) /\ StoreUnchanged)]_vars

\* C6 as stated (P4): TransferAsset on an asset whose status is TRANSFERRED,
\* REVOKED or DELETED always fails with InvalidState and changes no state.
C6_NonActiveAlwaysInvalidState ==
  [][res'.route = "transfer" =>
      \A id \in DOMAIN assetStorage \cap {res'.id}, fromId \in Creators :
        (assetStorage[id].status # "ACTIVE"
           /\ \E toId \in Creators, transferType \in TransferType :
                TransferAsset(id, fromId, toId, transferType))
          => (res' = NotAvailable(id) /\ StoreUnchanged)]_vars

\* C6 as amended: TransferAsset on an asset whose status is TRANSFERRED,
\* REVOKED or DELETED always fails and changes no state (transferHistory and
\* the creator index included): with InvalidState when fromId is the asset's
\* stored creatorId, with Unauthorized otherwise.
C6_NonActiveTransferFails ==
  [][res'.route = "transfer" =>
      \A id \in DOMAIN assetStorage \cap {res'.id}, fromId \in Creators :
        (assetStorage[id].status # "ACTIVE"
           /\ \E toId \in Creators, transferType \in TransferType :
                TransferAsset(id, fromId, toId, transferType))
          => /\ res' = IF fromId = assetStorage[id].creatorId
                       THEN NotAvailable(id) ELSE Unauthorized("transfer", id)
             /\ StoreUnchanged]_vars

\* Scenario D: a second transfer of the TRANSFERRED asset was refused as
\* InvalidState and the asset still has its one Transfer record
C6_Witness ==
  /\ res.id \in DOMAIN assetStorage
  /\ res = NotAvailable(res.id)
  /\ assetStorage[res.id].status = "TRANSFERRED"
  /\ Len(assetStorage[res.id].transferHistory) = 1

\* C7: once an asset's status is DELETED it is DELETED in every later state.
C7_DeletedAbsorbing ==
  [][\A id \in DOMAIN assetStorage :
       assetStorage[id].status = "DELETED" =>
         (id \in DOMAIN assetStorage' /\ assetStorage'[id].status = "DELETED")]_vars

\* C8 (P2): every step leaves each asset stored and its transferHistory a
\* prefix of the new one: the length never decreases and no appended
\* Transfer record changes.
C8_HistoryPrefix ==
  [][\A id \in DOMAIN assetStorage :
       /\ id \in DOMAIN assetStorage'
       /\ IsPrefix(assetStorage[id].transferHistory,
                   assetStorage'[id].transferHistory)]_vars

\* an asset with two appended Transfer records was revoked afterwards
C8_Witness ==
  /\ res.id \in DOMAIN assetStorage
  /\ res = Ok("revoke", res.id)
  /\ Len(assetStorage[res.id].transferHistory) = 2
  /\ assetStorage[res.id].status = "REVOKED"

\* C9: a successful LICENSE transfer of an ACTIVE asset leaves status ACTIVE,
\* creatorId and every creator-index entry unchanged; of the asset only
\* transferHistory (one record appended) and lastModified change, no other
\* asset changes, and the asset can be transferred again.
C9_LicenseTransfer ==
  [][(res'.route = "transfer" /\ res'.statusCode = 200) =>
      \A id \in DOMAIN assetStorage \cap {res'.id}, toId \in Creators :
        LET asset == assetStorage[id] IN
        (asset.status = "ACTIVE" /\ TransferAsset(id, asset.creatorId, toId, "LICENSE")) =>
          LET after == assetStorage'[id] IN
          /\ creatorAssets' = creatorAssets
          /\ DOMAIN assetStorage' = DOMAIN assetStorage
          /\ \A other \in DOMAIN assetStorage \ {id} :
                assetStorage'[other] = assetStorage[other]
          /\ after.status = "ACTIVE"
          /\ after.creatorId = asset.creatorId
          /\ [after EXCEPT !.transferHistory = asset.transferHistory,
                           !.lastModified = asset.lastModified] = asset
          /\ Len(after.transferHistory) = Len(asset.transferHistory) + 1
          /\ IsPrefix(asset.transferHistory, after.transferHistory)
          /\ after.transferHistory[Len(after.transferHistory)].transferType = "LICENSE"
          /\ after.transferHistory[Len(after.transferHistory)].toId = toId
          /\ after.lastModified = now
          /\ ~TransferGuard(after)]_vars

\* two LICENSE transfers followed one another on an asset that is still ACTIVE
C9_Witness ==
  /\ res.id \in DOMAIN assetStorage
  /\ res = Ok("transfer", res.id)
  /\ assetStorage[res.id].status = "ACTIVE"
  /\ Len(assetStorage[res.id].transferHistory) = 2
  /\ \A i \in 1..2 : assetStorage[res.id].transferHistory[i].transferType = "LICENSE"

\* C10: RevokeAsset by the owner on an asset that is not REVOKED succeeds and
\* sets status REVOKED without changing transferHistory or the creator index;
\* on a REVOKED asset it fails with InvalidState and changes no state.
C10_Revoke ==
  [][res'.route = "revoke" =>
      \A id \in DOMAIN assetStorage \cap {res'.id} :
        LET asset == assetStorage[id] IN
        RevokeAsset(id, asset.creatorId) =>
          IF asset.status # "REVOKED"
          THEN /\ res' = Ok("revoke", id)
               /\ assetStorage'[id].status = "REVOKED"
               /\ assetStorage'[id].transferHistory = asset.transferHistory
               /\ creatorAssets' = creatorAssets
          ELSE /\ res' = AlreadyRevoked(id)
               /\ StoreUnchanged]_vars

\* Scenario E: the second RevokeAsset on a REVOKED asset was refused
C10_Witness ==
  /\ res.id \in DOMAIN assetStorage
  /\ res = AlreadyRevoked(res.id)
  /\ assetStorage[res.id].status = "REVOKED"

\* C11: DeleteAsset by the owner succeeds for every asset status and leaves
\* status DELETED with nothing else changed but lastModified; on an asset that
\* is already DELETED it succeeds again and changes lastModified only, and the
\* handler's update applied once more to its own result gives the same asset
\* apart from lastModified.
C11_DeleteIdempotent ==
  [][res'.route = "delete" =>
      \A id \in DOMAIN assetStorage \cap {res'.id} :
        LET asset == assetStorage[id] IN
        DeleteAsset(id, asset.creatorId) =>
          /\ res' = Ok("delete", id)
          /\ assetStorage' = [assetStorage EXCEPT ![id].status = "DELETED",
                                                  ![id].lastModified = now]
          /\ creatorAssets' = creatorAssets
          /\ (asset.status = "DELETED" =>
                assetStorage' = [assetStorage EXCEPT ![id].lastModified = now])
          /\ [DeletedAsset(assetStorage'[id]) EXCEPT !.lastModified = 0]
               = [assetStorage'[id] EXCEPT !.lastModified = 0]]_vars

\* a TRANSFERRED asset was deleted by its owner after the clock had advanced
C11_Witness ==
  /\ res.id \in DOMAIN assetStorage
  /\ res = Ok("delete", res.id)
  /\ assetStorage[res.id].status = "DELETED"
  /\ Len(assetStorage[res.id].transferHistory) = 1
  /\ assetStorage[res.id].transferHistory[1].transferType = "FULL"
  /\ assetStorage[res.id].lastModified > assetStorage[res.id].registrationDate

Min(a, b) == IF a <= b THEN a ELSE b

Max(a, b) == IF a >= b THEN a ELSE b

\* C12 (P5): every response of GetAssetsByCreator, whose page and limit are at
\* least 1, has total equal to the length of the creator's id list (0 for an
\* unknown creator) and holds exactly min(limit, max(0, total - (page-1)*limit))
\* assets, those of the ids at positions [(page-1)*limit, page*limit) of the
\* list, in order.
C12_Pagination ==
  [][res'.route = "list" =>
      LET r == res'.body
          ids == IF r.creatorId \in DOMAIN creatorAssets
                 THEN creatorAssets[r.creatorId] ELSE <<>>
          total == Len(ids)
          first == (r.page - 1) * r.limit
          count == Min(r.limit, Max(0, total - first))
      IN /\ r.page >= 1
         /\ r.limit >= 1
         /\ r.total = total
         /\ Len(r.assets) = count
         /\ \A i \in 1..count :
              /\ ids[first + i] \in DOMAIN assetStorage
              /\ r.assets[i] = assetStorage[ids[first + i]]]_vars

\* page 2 with limit 1 of a creator with two assets returned the second one
C12_Witness ==
  /\ res.route = "list"
  /\ res.body.creatorId \in DOMAIN creatorAssets
  /\ res.body.page = 2
  /\ res.body.limit = 1
  /\ res.body.total = 2
  /\ Len(res.body.assets) = 1
  /\ res.body.assets[1].id = creatorAssets[res.body.creatorId][2]

\* C13 (I4): every step leaves each stored asset stored under its id with the
\* id, contentHash, assetType and registrationDate it had, so they keep the
\* values CreateAsset set, whatever transfers, metadata updates, revokes and
\* deletes follow.
C13_ImmutableFields ==
  [][\A id \in DOMAIN assetStorage :
       /\ id \in DOMAIN assetStorage'
       /\ assetStorage[id].id = id
       /\ assetStorage'[id].id = id
       /\ assetStorage'[id].contentHash = assetStorage[id].contentHash
       /\ assetStorage'[id].assetType = assetStorage[id].assetType
       /\ assetStorage'[id].registrationDate = assetStorage[id].registrationDate]_vars

\* an asset registered at time 0 was transferred, had its metadata updated
\* and was deleted at time 1
C13_Witness ==
  /\ res.id \in DOMAIN assetStorage
  /\ res = Ok("delete", res.id)
  /\ assetStorage[res.id].status = "DELETED"
  /\ assetStorage[res.id].transferHistory # <<>>
  /\ assetStorage[res.id].metadata = Spread(BaseMetadata, [fileSize |-> 2, dimensions |-> "1x1"])
  /\ assetStorage[res.id].registrationDate = 0
  /\ assetStorage[res.id].lastModified = 1

\* C14: a successful CreateAsset stores a new asset under an id that was not
\* in the store, with the fields of the request, status ACTIVE, empty
\* transferHistory and registrationDate = lastModified = now, appends that id
\* to the end of creatorId's index entry, and leaves every other asset and
\* every other creator's index entry unchanged.
C14_CreateFrame ==
  [][(res'.route = "create" /\ res'.statusCode = 200) =>
      \A body \in Bodies :
        CreateAsset(body) =>
          LET id == res'.id
              entry == IF body.creatorId \in DOMAIN creatorAssets
                       THEN creatorAssets[body.creatorId] ELSE <<>>
          IN /\ id \notin DOMAIN assetStorage
             /\ DOMAIN assetStorage' = DOMAIN assetStorage \cup {id}
             /\ \A other \in DOMAIN assetStorage : assetStorage'[other] = assetStorage[other]
             /\ assetStorage'[id].id = id
             /\ assetStorage'[id].status = "ACTIVE"
             /\ assetStorage'[id].transferHistory = <<>>
             /\ assetStorage'[id].registrationDate = now
             /\ assetStorage'[id].lastModified = assetStorage'[id].registrationDate
             /\ assetStorage'[id].creatorId = body.creatorId
             /\ assetStorage'[id].title = body.title
             /\ assetStorage'[id].contentHash = body.contentHash
             /\ assetStorage'[id].assetType = body.assetType
             /\ assetStorage'[id].metadata = body.metadata
             /\ DOMAIN creatorAssets' = DOMAIN creatorAssets \cup {body.creatorId}
             /\ creatorAssets'[body.creatorId] = Append(entry, id)
             /\ \A c \in DOMAIN creatorAssets \ {body.creatorId} :
                   creatorAssets'[c] = creatorAssets[c]]_vars

\* Scenario A with a second asset: the creator's second asset was registered
\* while the first, no longer ACTIVE, stayed as it was
C14_Witness ==
  /\ res.id \in DOMAIN assetStorage
  /\ res = Ok("create", res.id)
  /\ assetStorage[res.id].status = "ACTIVE"
  /\ assetStorage[res.id].transferHistory = <<>>
  /\ LET entry == creatorAssets[assetStorage[res.id].creatorId]
     IN /\ Len(entry) = 2
        /\ entry[2] = res.id
        /\ assetStorage[entry[1]].status = "REVOKED"

\* C15: UpdateAssetMetadata by the owner succeeds for every asset status and
\* changes only metadata and lastModified of that asset: supplied metadata
\* fields overwrite, omitted fields keep their values, and status, creatorId,
\* transferHistory, the other assets and the creator index are unchanged.
C15_MetadataFrame ==
  [][res'.route = "metadata" =>
      \A id \in DOMAIN assetStorage \cap {res'.id}, metadata \in Patches :
        LET asset == assetStorage[id] IN
        UpdateAssetMetadata(id, asset.creatorId, metadata) =>
          LET after == assetStorage'[id] IN
          /\ res' = Ok("metadata", id)
          /\ DOMAIN assetStorage' = DOMAIN assetStorage
          /\ \A other \in DOMAIN assetStorage \ {id} :
                assetStorage'[other] = assetStorage[other]
          /\ creatorAssets' = creatorAssets
          /\ [after EXCEPT !.metadata = asset.metadata,
                           !.lastModified = asset.lastModified] = asset
          /\ after.lastModified = now
          /\ DOMAIN after.metadata = DOMAIN asset.metadata \cup DOMAIN metadata
          /\ \A k \in DOMAIN metadata : after.metadata[k] = metadata[k]
          /\ \A k \in DOMAIN asset.metadata \ DOMAIN metadata :
                after.metadata[k] = asset.metadata[k]]_vars

\* the metadata of a DELETED asset was updated: fileSize was overwritten,
\* dimensions added and fileFormat kept
C15_Witness ==
  /\ res.id \in DOMAIN assetStorage
  /\ res = Ok("metadata", res.id)
  /\ assetStorage[res.id].status = "DELETED"
  /\ assetStorage[res.id].metadata =
       [fileFormat |-> "png", fileSize |-> 2, dimensions |-> "1x1"]

\* the timers of userId that are still pending
PendingTimers(userId) == {i \in 1..Len(timers) : timers[i].userId = userId}

\* the number of requests of userId that passed the rate limiter at the
\* present reading of the clock: each left a timer due ResetDelay from now,
\* which cannot have fired yet
PassedNow(userId) ==
  Cardinality({i \in PendingTimers(userId) : timers[i].due = now + ResetDelay})

\* C16: for each creatorId at most 10 CreateAsset requests pass the rate
\* limiter within any 60-second window, whatever the timing of the requests
\* and of the delayed counter resets; here for the shortest window, the
\* requests made at one reading of the clock.
C16_RateLimitBound == \A userId \in Creators : PassedNow(userId) <= RateLimit

\* C17: once a creator has made no CreateAsset request for 60 seconds and all
\* of its pending reset timers have fired, its request count is back to 0, so
\* that its next 10 requests pass the rate limiter.
C17_ResetToZero ==
  \A userId \in Creators :
    PendingTimers(userId) = {} => rateLimiter[userId] = 0

\* the step is a TransferAsset request on id that returns success
SuccessfulTransfer(id, toId, transferType) ==
  /\ res' = Ok("transfer", id)
  /\ \E fromId \in Creators : TransferAsset(id, fromId, toId, transferType)

FullTransfers(id) ==
  {i \in 1..Len(assetStorage[id].transferHistory) :
     assetStorage[id].transferHistory[i].transferType = "FULL"}

\* C18: under any interleaving of TransferAsset requests on the same asset
\* with each other and with the other requests, every request that returns
\* success appends its Transfer record to the stored transferHistory and no
\* other step changes the history, so that its length is the number of
\* successful transfers of the asset; and at most one FULL transfer of an
\* asset ever succeeds.
C18_NoLostUpdate ==
  [][\A id \in DOMAIN assetStorage :
       LET before == assetStorage[id].transferHistory
           after == assetStorage'[id].transferHistory
       IN IF \E toId \in Creators, transferType \in TransferType :
               SuccessfulTransfer(id, toId, transferType)
          THEN /\ Len(after) = Len(before) + 1
               /\ SubSeq(after, 1, Len(before)) = before
               /\ SuccessfulTransfer(id, after[Len(after)].toId,
                                     after[Len(after)].transferType)
               /\ (after[Len(after)].transferType = "FULL" => FullTransfers(id) = {})
          ELSE after = before]_vars

\* a LICENSE and then a FULL transfer of one asset succeeded, both records
\* are stored, and a third transfer request was refused
C18_Witness ==
  /\ res.id \in DOMAIN assetStorage
  /\ res = NotAvailable(res.id)
  /\ Len(assetStorage[res.id].transferHistory) = 2
  /\ assetStorage[res.id].transferHistory[1].transferType = "LICENSE"
  /\ FullTransfers(res.id) = {2}

\* C19: once an asset's status is TRANSFERRED, REVOKED or DELETED no step
\* makes it ACTIVE again, no TransferAsset on it succeeds and its
\* transferHistory stays as it was.
C19_ActiveNeverReentered ==
  [][\A id \in DOMAIN assetStorage :
       assetStorage[id].status # "ACTIVE" =>
         /\ id \in DOMAIN assetStorage'
         /\ assetStorage'[id].status # "ACTIVE"
         /\ assetStorage'[id].transferHistory = assetStorage[id].transferHistory
         /\ ~ \E toId \in Creators, transferType \in TransferType :
                SuccessfulTransfer(id, toId, transferType)]_vars

\* a TRANSFERRED asset was revoked and a transfer of it was then refused
C19_Witness ==
  /\ res.id \in DOMAIN assetStorage
  /\ res = NotAvailable(res.id)
  /\ assetStorage[res.id].status = "REVOKED"
  /\ FullTransfers(res.id) = {1}
  /\ Len(assetStorage[res.id].transferHistory) = 1

\* the places <<creator, position>> of the creator index that hold id
Occurrences(id) ==
  UNION {{<<c, i>> : i \in {j \in 1..Len(creatorAssets[c]) : creatorAssets[c][j] = id}} :
           c \in DOMAIN creatorAssets}

\* C20: in every reachable state every asset id of the asset store appears
\* exactly once across all creator-index entries, and every id in a
\* creator-index entry is the id of a stored asset; also after a FULL
\* transfer whose toId is the asset's creatorId.
C20_IndexWellFormed ==
  /\ \A id \in DOMAIN assetStorage : Cardinality(Occurrences(id)) = 1
  /\ \A c \in DOMAIN creatorAssets : \A i \in 1..Len(creatorAssets[c]) :
        creatorAssets[c][i] \in DOMAIN assetStorage

\* a creator with two assets made a FULL transfer of the first to itself:
\* the id left its place and was appended once
C20_Witness ==
  /\ res.id \in DOMAIN assetStorage
  /\ res = Ok("transfer", res.id)
  /\ LET asset == assetStorage[res.id]
         last == asset.transferHistory[Len(asset.transferHistory)]
     IN /\ last.transferType = "FULL"
        /\ last.toId = last.fromId
        /\ Len(creatorAssets[last.toId]) = 2
        /\ creatorAssets[last.toId][2] = res.id
        /\ creatorAssets[last.toId][1] > res.id
====
